---------------------------- MODULE Spec2Model ----------------------------
(***************************************************************************)
(* Model of delira's network trainers (PyTorchNetworkTrainer and           *)
(* ChainerNetworkTrainer): construction (_setup: optimizers, resume from   *)
(* the latest checkpoint, device placement), the epoch loop with its       *)
(* callbacks and checkpoints, and the end of training.                     *)
(*                                                                         *)
(* File names are sequences of one-character strings, so that the string   *)
(* operations of the source (startswith, endswith, rsplit, "%d", int(),    *)
(* [:-1]) are computed as Python computes them.  All files live in the     *)
(* trainer's save_path; a file name stands for os.path.join(save_path, n). *)
(* Python's None is the integer None (-1) where it meets an epoch.         *)
(***************************************************************************)
EXTENDS Integers, Sequences, FiniteSets, TLC

VARIABLES
    cfg,            \* the constructor's arguments and the host's capabilities
    files,          \* the save directory: file name -> checkpoint bundle
    trainer,        \* the trainer's attributes
    pc,             \* position in the trainer's lifecycle
    raised,         \* the exception that ended the lifecycle ("" if none)
    log,            \* the set of warnings logged so far
    resume,         \* what the resume step of _setup did
    epoch,          \* the epoch loop's counter
    stop_epoch,     \* the end (exclusive) of the epoch loop's range
    is_best,        \* the epoch loop's is_best flag
    best_val_score, \* the epoch loop's best score so far (None: none yet)
    seen,           \* the validation scores of the earlier epochs
    new_score,      \* this epoch's validation score (None: none)
    saves,          \* the save_state calls so far: <<file_name, epoch>>
    returned,       \* the module train() returned (None before)
    loaded,         \* the latest direct load_state call and what it returned
    global_config,  \* chainer.global_config: the process-wide train flag, dtype
    running,        \* the latest pass over data and the train flag it ran under
    jax_run,        \* the JAX optimizer and the closure invocations so far
    pkg             \* the delira modules imported so far and what they expose

vars == <<cfg, files, trainer, pc, raised, log, resume, epoch, stop_epoch, is_best,
          best_val_score, seen, new_score, saves, returned, loaded,
          global_config, running, jax_run, pkg>>

None == 0 - 1

---------------------------------------------------------------------------
(* Bounds of the model                                                     *)
MaxEpochNo == 2     \* largest epoch number of a checkpoint found at setup
MaxStart == 2       \* largest start_epoch argument
MaxNumEpochs == 3   \* largest num_epochs argument
MaxSaveFreq == 3    \* largest save_freq argument
MaxScore == 2       \* validation scores are 0..MaxScore
MaxGpus == 2        \* longest gpu_ids list
MaxLr == 2          \* override values returned by callbacks are 0..MaxLr
MaxInitFiles == 3   \* most files in the save directory before construction
MaxCallbacks == 2   \* most registered callbacks
MaxModelCallbacks == 2  \* most registered callbacks that return a model state
MaxCalls == 2       \* most direct save_state calls of a script
MaxLosses == 2      \* the loss mappings handed to the constructor are 1..MaxLosses

---------------------------------------------------------------------------
(* Strings                                                                 *)

CHECKPOINT == <<"c", "h", "e", "c", "k", "p", "o", "i", "n", "t">>
EPOCH == <<"e", "p", "o", "c", "h">>
BEST == <<"b", "e", "s", "t">>
US == <<"_">>
PT == <<".", "p", "t">>
PTH == <<".", "p", "t", "h">>
CHAIN == <<".", "c", "h", "a", "i", "n">>
LOGEXT == <<".", "l", "o", "g">>

Digits == <<"0", "1", "2", "3", "4", "5", "6", "7", "8", "9">>

\* str.startswith
StartsWith(s, p) ==
    /\ Len(p) <= Len(s)
    /\ SubSeq(s, 1, Len(p)) = p

\* str.endswith
EndsWith(s, p) ==
    /\ Len(p) <= Len(s)
    /\ SubSeq(s, Len(s) - Len(p) + 1, Len(s)) = p

\* the position of the last occurrence of the character c in s, 0 if none
LastIndexOf(s, c) ==
    LET hits == {i \in 1..Len(s) : s[i] = c}
    IN  IF hits = {} THEN 0 ELSE CHOOSE i \in hits : \A j \in hits : j <= i

\* s.rsplit(c, 1)[-1]
RSplitLast(s, c) == SubSeq(s, LastIndexOf(s, c) + 1, Len(s))

\* s.rsplit(c, 1)[0]
RSplitFirst(s, c) ==
    IF LastIndexOf(s, c) = 0 THEN s ELSE SubSeq(s, 1, LastIndexOf(s, c) - 1)

\* s[:-1]
DropLast(s) == SubSeq(s, 1, Len(s) - 1)

RECURSIVE FormatInt(_)
\* "%d" % n, for n >= 0
FormatInt(n) ==
    IF n < 10 THEN <<Digits[n + 1]>>
    ELSE FormatInt(n \div 10) \o <<Digits[(n % 10) + 1]>>

DigitValue(c) == CHOOSE d \in 0..9 : Digits[d + 1] = c

IsDigit(c) == \E d \in 0..9 : Digits[d + 1] = c

\* whether int(s) returns (it raises ValueError otherwise)
IsInt(s) == Len(s) > 0 /\ \A i \in 1..Len(s) : IsDigit(s[i])

RECURSIVE ParseInt(_)
\* int(s), for a string of digits
ParseInt(s) ==
    IF Len(s) = 0 THEN 0
    ELSE 10 * ParseInt(DropLast(s)) + DigitValue(s[Len(s)])


---------------------------------------------------------------------------
(* Checkpoint files                                                        *)

Backends == {"torch", "chainer"}

\* "checkpoint_epoch_%d" % n
EpochStem(n) == CHECKPOINT \o US \o EPOCH \o US \o FormatInt(n)

\* "checkpoint_best"
BestStem == CHECKPOINT \o US \o BEST

\* the extension save_state and load_state append
CanonicalExt(backend) == IF backend = "torch" THEN PT ELSE CHAIN

\* whether save_state and load_state leave the file name as it is
HasAcceptedExt(backend, file_name) ==
    IF backend = "torch"
    THEN EndsWith(file_name, PTH) \/ EndsWith(file_name, PT)
    ELSE EndsWith(file_name, CHAIN)

\* the file save_state writes, given its file_name argument
SaveFileName(backend, file_name) ==
    IF ~HasAcceptedExt(backend, file_name)
    THEN file_name \o CanonicalExt(backend)
    ELSE file_name

\* a variant of LoadFileName: the extension appended to every file name
LoadFileNameAppend(backend, file_name) == file_name \o CanonicalExt(backend)

\* the file load_state reads, given its file_name argument
LoadFileName(backend, file_name) ==
    IF ~HasAcceptedExt(backend, file_name)
    THEN file_name \o CanonicalExt(backend)
    ELSE file_name

\* io.save_checkpoint(file, model, optimizers, epoch=None): the artifact
SaveCheckpoint(module, optimizers, ep) ==
    [model |-> module.weights, optimizer |-> optimizers, epoch |-> ep]

\* save_state(file_name, epoch) passes the module and the optimizers to
\* save_checkpoint, and not its epoch argument
SavedBundle(tr, ep) == SaveCheckpoint(tr.module, tr.optimizers, None)

\* the directory after save_state(file_name, epoch)
SaveState(backend, dir, tr, file_name, ep) ==
    LET name == SaveFileName(backend, file_name)
    IN  [f \in DOMAIN dir \cup {name} |->
            IF f = name THEN SavedBundle(tr, ep) ELSE dir[f]]

\* io.load_checkpoint(file): the bundle of an existing file
LoadCheckpoint(dir, name) ==
    IF name \in DOMAIN dir
    THEN [exc |-> "", bundle |-> dir[name]]
    ELSE [exc |-> "FileNotFoundError", bundle |-> <<>>]

\* load_state(file_name): the bundle, or the exception raised
LoadState(backend, dir, file_name) ==
    LoadCheckpoint(dir, LoadFileName(backend, file_name))

\* dict.pop of a key that is present
Pop(d, k) == [x \in DOMAIN d \ {k} |-> d[x]]

\* AbstractNetworkTrainer._update_state(new_state): setattr for every item
MergeState(tr, new_state) ==
    [k \in DOMAIN tr \cup DOMAIN new_state |->
        IF k \in DOMAIN new_state THEN new_state[k] ELSE tr[k]]

\* a variant of LoadOptimizers: the trainer adopts the bundle's mapping
LoadOptimizersAdopt(optimizers, optim_state, order) ==
    [exc |-> "", optimizers |-> optim_state]

RECURSIVE LoadOptimizers(_, _, _)
\* for key in self.optimizers.keys(): load optim_state[key], in order;
\* a key missing from optim_state raises KeyError and ends the loop
LoadOptimizers(optimizers, optim_state, order) ==
    IF order = <<>> THEN [exc |-> "", optimizers |-> optimizers]
    ELSE IF Head(order) \notin DOMAIN optim_state
         THEN [exc |-> "KeyError", optimizers |-> optimizers]
         ELSE LoadOptimizers(
                 [optimizers EXCEPT ![Head(order)] = optim_state[Head(order)]],
                 optim_state, Tail(order))

\* a variant of UpdateState: new_state.pop("model") without the test, so
\* that a bundle without "model" raises KeyError
UpdateStateNeedsModel(tr, order, new_state) ==
    LET hasModel == "model" \in DOMAIN new_state
        tr1 == IF hasModel
               THEN [tr EXCEPT !.module.weights = new_state.model]
               ELSE tr
        s1 == IF hasModel THEN Pop(new_state, "model") ELSE new_state
        hasOptim == "optimizer" \in DOMAIN s1 /\ DOMAIN s1.optimizer # {}
        lo == IF hasOptim
              THEN LoadOptimizers(tr1.optimizers, s1.optimizer, order)
              ELSE [exc |-> "", optimizers |-> tr1.optimizers]
        tr2 == [tr1 EXCEPT !.optimizers = lo.optimizers]
        s2 == IF hasOptim THEN Pop(s1, "optimizer") ELSE s1
        hasEpoch == "epoch" \in DOMAIN s2
        tr3 == IF hasEpoch THEN [tr2 EXCEPT !.start_epoch = s2.epoch] ELSE tr2
        s3 == IF hasEpoch THEN Pop(s2, "epoch") ELSE s2
    IN  IF ~hasModel /\ new_state # <<>> THEN [tr |-> tr, exc |-> "KeyError"]
        ELSE IF lo.exc # "" THEN [tr |-> tr2, exc |-> lo.exc]
        ELSE [tr |-> MergeState(tr3, s3), exc |-> ""]

\* _update_state(new_state) of both trainers: [tr, exc].  The bundle's
\* "model" and optimizer entries are native states: torch loads them into
\* the live objects, chainer rebinds self.module and self.optimizers[key]
\* to them; either way the trainer then holds the bundle's states.
UpdateState(tr, order, new_state) ==
    LET hasModel == "model" \in DOMAIN new_state
        tr1 == IF hasModel
               THEN [tr EXCEPT !.module.weights = new_state.model]
               ELSE tr
        s1 == IF hasModel THEN Pop(new_state, "model") ELSE new_state
        hasOptim == "optimizer" \in DOMAIN s1 /\ DOMAIN s1.optimizer # {}
        lo == IF hasOptim
              THEN LoadOptimizers(tr1.optimizers, s1.optimizer, order)
              ELSE [exc |-> "", optimizers |-> tr1.optimizers]
        tr2 == [tr1 EXCEPT !.optimizers = lo.optimizers]
        s2 == IF hasOptim THEN Pop(s1, "optimizer") ELSE s1
        hasEpoch == "epoch" \in DOMAIN s2
        tr3 == IF hasEpoch THEN [tr2 EXCEPT !.start_epoch = s2.epoch] ELSE tr2
        s3 == IF hasEpoch THEN Pop(s2, "epoch") ELSE s2
    IN  IF lo.exc # "" THEN [tr |-> tr2, exc |-> lo.exc]
        ELSE [tr |-> MergeState(tr3, s3), exc |-> ""]

\* update_state(file_name): _update_state(load_state(file_name))
UpdateStateFromFile(backend, dir, tr, order, file_name) ==
    LET ld == LoadState(backend, dir, file_name)
    IN  IF ld.exc # "" THEN [tr |-> tr, exc |-> ld.exc]
        ELSE UpdateState(tr, order, ld.bundle)

---------------------------------------------------------------------------
(* _setup: optimizers, resume, device placement                            *)

\* optim_fn(network, optimizer_cls, **optimizer_params): fresh optimizers
BuildOptimizers(order) == [k \in {order[i] : i \in 1..Len(order)} |-> 0]

\* torch: self.optimizers = {k: wrap_fn(v, ...) for k, v in
\* self.optimizers.items()}; a wrapped optimizer keeps its optimizer's state
WrapOptimizers(backend, optimizers) ==
    IF backend = "torch" THEN [k \in DOMAIN optimizers |-> optimizers[k]]
    ELSE optimizers

\* the files the resume step of _setup leaves out as best checkpoints
IsBestFile(backend, x) ==
    IF backend = "torch"
    THEN EndsWith(x, US \o BEST \o PTH) \/ EndsWith(x, US \o BEST \o PT)
    ELSE EndsWith(x, US \o BEST \o CHAIN)

\* a variant of ResumeFiles: the files whose epoch field is no integer are
\* left out
ResumeFilesWellFormed(backend, dir) ==
    {x \in DOMAIN dir : /\ StartsWith(x, CHECKPOINT)
                        /\ ~IsBestFile(backend, x)
                        /\ IsInt(RSplitFirst(RSplitLast(x, "_"), "."))}

\* files = [x for x in os.listdir(save_path) if isfile(x)
\*          and x.startswith("checkpoint") and not best]
ResumeFiles(backend, dir) ==
    {x \in DOMAIN dir : StartsWith(x, CHECKPOINT) /\ ~IsBestFile(backend, x)}

\* x.rsplit("_", 1)[-1].rsplit(".", 1)[0]
EpochField(x) == RSplitFirst(RSplitLast(x, "_"), ".")

\* a variant of LatestEpoch: min in place of max
LatestEpochMin(fs) ==
    LET ns == {ParseInt(EpochField(x)) : x \in fs}
    IN  CHOOSE n \in ns : \A m \in ns : n <= m

\* max([int(EpochField(x)) for x in files]), when every int() returns
LatestEpoch(fs) ==
    LET ns == {ParseInt(EpochField(x)) : x \in fs}
    IN  CHOOSE n \in ns : \A m \in ns : m <= n

\* the extension of latest_state_path before the os.path.isfile test
PrimaryExt(backend) == IF backend = "torch" THEN PTH ELSE CHAIN

\* latest_state_path as handed to update_state
LatestStatePath(backend, dir, latest_epoch) ==
    LET path == EpochStem(latest_epoch) \o PrimaryExt(backend)
    IN  IF path \notin DOMAIN dir THEN DropLast(path) ELSE path

NoResume == [attempted |-> FALSE, latest_epoch |-> None, path |-> <<>>,
             bundle |-> <<>>, exc |-> ""]

\* the resume step of _setup: [tr, exc, log, resume]; a KeyError of
\* update_state is caught and logged, any other exception propagates
SetupResume(backend, isdir, dir, tr, order) ==
    LET fs == ResumeFiles(backend, dir)
    IN  IF ~isdir \/ fs = {}
        THEN [tr |-> tr, exc |-> "", log |-> {}, resume |-> NoResume]
        ELSE IF \E x \in fs : ~IsInt(EpochField(x))
        THEN [tr |-> tr, exc |-> "ValueError", log |-> {},
              resume |-> NoResume]
        ELSE
            LET latest == LatestEpoch(fs)
                path == LatestStatePath(backend, dir, latest)
                us == UpdateStateFromFile(backend, dir, tr, order, path)
                res == [attempted |-> TRUE, latest_epoch |-> latest,
                        path |-> LoadFileName(backend, path),
                        bundle |-> LoadState(backend, dir, path).bundle,
                        exc |-> us.exc]
            IN  IF us.exc = "KeyError"
                THEN [tr |-> us.tr, exc |-> "",
                      log |-> {"info: attempting to load state",
                               "warning: previous state could not be loaded"},
                      resume |-> res]
                ELSE [tr |-> us.tr, exc |-> us.exc,
                      log |-> {"info: attempting to load state"},
                      resume |-> res]

\* devices
CpuTorch == [kind |-> "cpu", index |-> None]
CudaTorch(id) == [kind |-> "cuda", index |-> id]

\* gpu_device_prefix + str(id) and cpu_device_prefix, through get_device
GpuChainer(chainerx, id) ==
    [kind |-> IF chainerx THEN "cuda" ELSE "cupy", index |-> id]
CpuChainer(chainerx) ==
    [kind |-> IF chainerx THEN "native" ELSE "numpy", index |-> None]

\* self.<name> = <value> for every item of attrs
SetAttrs(tr, attrs) ==
    [k \in DOMAIN tr \cup DOMAIN attrs |->
        IF k \in DOMAIN attrs THEN attrs[k] ELSE tr[k]]

\* the else branches of device placement: no accelerator
PlaceOnCpu(tr, cpu) ==
    SetAttrs(tr, [use_gpu |-> FALSE, input_device |-> cpu,
                  output_device |-> cpu,
                  module |-> [tr.module EXCEPT !.device = cpu]])

\* a variant of TorchMultiGpu: the first id as the output device
TorchMultiGpuFirstOut(tr, gpu_ids) ==
    SetAttrs(tr, [use_gpu |-> TRUE,
                  input_device |-> CudaTorch(gpu_ids[1]),
                  module |-> [tr.module EXCEPT
                                !.device = CudaTorch(gpu_ids[1]),
                                !.device_ids = gpu_ids],
                  output_device |-> CudaTorch(gpu_ids[1])])

\* torch: more than one id and more than one device
TorchMultiGpu(tr, gpu_ids) ==
    SetAttrs(tr, [use_gpu |-> TRUE,
                  input_device |-> CudaTorch(gpu_ids[1]),
                  module |-> [tr.module EXCEPT
                                !.device = CudaTorch(gpu_ids[1]),
                                !.device_ids = gpu_ids],
                  output_device |-> CudaTorch(gpu_ids[2])])

\* torch: one id, or one device
TorchSingleGpu(tr, gpu_ids) ==
    SetAttrs(tr, [use_gpu |-> TRUE,
                  input_device |-> CudaTorch(gpu_ids[1]),
                  module |-> [tr.module EXCEPT
                                !.device = CudaTorch(gpu_ids[1])],
                  output_device |-> CudaTorch(gpu_ids[1])])

\* a variant of PlaceTorch: no torch.cuda.is_available() in the test
PlaceTorchNoProbe(c, tr) ==
    IF c.gpu_ids = <<>> THEN [tr |-> PlaceOnCpu(tr, CpuTorch), exc |-> ""]
    ELSE [tr |-> TorchSingleGpu(tr, c.gpu_ids), exc |-> ""]

\* PyTorchNetworkTrainer._setup, device placement: [tr, exc]; an exception
\* of the probe or of the module's placement (c.probe = "raises") leaves
\* _setup
PlaceTorch(c, tr) ==
    IF c.gpu_ids = <<>> THEN [tr |-> PlaceOnCpu(tr, CpuTorch), exc |-> ""]
    ELSE IF c.probe = "raises" THEN [tr |-> tr, exc |-> "RuntimeError"]
    ELSE IF c.probe = "unavailable"
    THEN [tr |-> PlaceOnCpu(tr, CpuTorch), exc |-> ""]
    ELSE IF Len(c.gpu_ids) > 1 /\ c.device_count > 1
    THEN [tr |-> TorchMultiGpu(tr, c.gpu_ids), exc |-> ""]
    ELSE [tr |-> TorchSingleGpu(tr, c.gpu_ids), exc |-> ""]

\* chainer: more than one id; the module is moved to "@numpy" and wrapped,
\* and the optimizers are built anew
ChainerMultiGpu(tr, chainerx, gpu_ids, order) ==
    SetAttrs(tr, [use_gpu |-> TRUE,
                  input_device |-> GpuChainer(chainerx, gpu_ids[1]),
                  module |-> [tr.module EXCEPT
                                !.device = [kind |-> "numpy", index |-> None],
                                !.device_ids = gpu_ids],
                  optimizers |-> BuildOptimizers(order),
                  output_device |-> GpuChainer(chainerx, gpu_ids[1])])

\* chainer: one id; both devices are get_device(cpu_device_prefix)
ChainerSingleGpu(tr, chainerx, gpu_ids) ==
    SetAttrs(tr, [use_gpu |-> TRUE,
                  input_device |-> CpuChainer(chainerx),
                  module |-> [tr.module EXCEPT !.device = CpuChainer(chainerx)],
                  output_device |-> CpuChainer(chainerx)])

\* ChainerNetworkTrainer._setup, device placement: [tr, exc]; a
\* RuntimeError of the probe is caught
PlaceChainer(c, tr) ==
    LET cpu == CpuChainer(c.chainerx)
    IN  IF c.gpu_ids = <<>> THEN [tr |-> PlaceOnCpu(tr, cpu), exc |-> ""]
        ELSE IF c.probe = "raises"
        THEN [tr |-> PlaceOnCpu(tr, cpu), exc |-> ""]
        ELSE IF c.probe = "unavailable"
        THEN [tr |-> PlaceOnCpu(tr, cpu), exc |-> ""]
        ELSE IF Len(c.gpu_ids) > 1
        THEN [tr |-> ChainerMultiGpu(tr, c.chainerx, c.gpu_ids, c.opt_names),
              exc |-> ""]
        ELSE [tr |-> ChainerSingleGpu(tr, c.chainerx, c.gpu_ids), exc |-> ""]

PlaceDevices(c, tr) ==
    IF c.backend = "torch" THEN PlaceTorch(c, tr) ELSE PlaceChainer(c, tr)

\* a variant of ResolveCrits: 'criterions' wins when both are supplied
ResolveCritsLegacyFirst(c) ==
    IF c.backend # "torch" THEN [crits |-> c.losses, warnings |-> {}]
    ELSE IF (c.criterions # None) # (c.losses # None)
    THEN IF c.losses # None THEN [crits |-> c.losses, warnings |-> {}]
         ELSE [crits |-> c.criterions,
               warnings |-> {"DeprecationWarning: criterions"}]
    ELSE [crits |-> c.criterions,
          warnings |-> {"RuntimeWarning: criterions and losses"}]

\* __init__: the losses handed to the base class, and the warnings issued.
\* torch: (criterions is not None) ^ (losses is not None) selects the one
\* supplied, else 'losses' with a RuntimeWarning; chainer has 'losses' only
ResolveCrits(c) ==
    IF c.backend # "torch" THEN [crits |-> c.losses, warnings |-> {}]
    ELSE IF (c.criterions # None) # (c.losses # None)
    THEN IF c.losses # None THEN [crits |-> c.losses, warnings |-> {}]
         ELSE [crits |-> c.criterions,
               warnings |-> {"DeprecationWarning: criterions"}]
    ELSE [crits |-> c.losses,
          warnings |-> {"RuntimeWarning: criterions and losses"}]

\* the wrapper _setup picks for the optimizers: apex's when `from apex
\* import amp` succeeds, the default wrapper when it raises ImportError
WrapFn(c) ==
    IF c.apex THEN "amp_handle.wrap_optimizer" ELSE "DefaultOptimWrapperTorch"

\* the wrapper around each optimizer, by optimizer name; the chainer
\* trainer wraps none
OptimWrappers(c) ==
    IF c.backend = "torch"
    THEN [k \in DOMAIN BuildOptimizers(c.opt_names) |-> WrapFn(c)]
    ELSE <<>>

\* a variant of MixedPrecisionWarnings: the warning does not depend on
\* whether mixed precision was requested
MixedPrecisionWarningsAlways(c) ==
    IF c.backend = "torch" /\ ~c.apex
    THEN {"warning: Apex was not found"}
    ELSE {}

\* except ImportError: if mixed_precision: logger.warning(...)
MixedPrecisionWarnings(c) ==
    IF c.backend = "torch" /\ ~c.apex /\ c.mixed_precision
    THEN {"warning: Apex was not found"}
    ELSE {}

\* the attributes set by __init__ and the start of _setup
NewTrainer(c) ==
    [module |-> IF c.backend = "torch"
                THEN [weights |-> 0,
                      device |-> [kind |-> "unplaced", index |-> None],
                      device_ids |-> <<>>, training |-> c.net_training]
                ELSE [weights |-> 0,
                      device |-> [kind |-> "unplaced", index |-> None],
                      device_ids |-> <<>>],
     losses |-> ResolveCrits(c).crits,
     optimizers |-> WrapOptimizers(c.backend, BuildOptimizers(c.opt_names)),
     optim_wrappers |-> OptimWrappers(c),
     start_epoch |-> c.start_epoch,
     save_freq |-> c.save_freq]

\* chainer _setup: mixed precision is enabled process-wide, before the
\* resume step
SetupGlobalConfig(c, gc) ==
    IF c.backend = "chainer" /\ c.mixed_precision
    THEN [gc EXCEPT !.dtype = "mixed16"]
    ELSE gc

\* __init__ with _setup: [tr, exc, log, resume]
Setup(c, dir) ==
    LET w == ResolveCrits(c).warnings \cup MixedPrecisionWarnings(c)
        rs == SetupResume(c.backend, c.isdir, dir, NewTrainer(c), c.opt_names)
        pl == PlaceDevices(c, rs.tr)
    IN  IF rs.exc # "" THEN [rs EXCEPT !.log = w \cup @]
        ELSE [tr |-> pl.tr, exc |-> pl.exc, log |-> w \cup rs.log,
              resume |-> rs.resume]

---------------------------------------------------------------------------
(* Callbacks                                                               *)

CallbackKinds == {"none", "set_lr", "set_wd", "raise_lr"}

\* callbacks that return a new model state, computed from the trainer's
ModelCallbackKinds == {"none", "shift_model", "scale_model"}
ModelShift == 10
ModelScale == 2

\* what cb.at_epoch_begin / cb.at_epoch_end returns: a mapping of overrides.
\* "raise_lr" reads the trainer's lr, so that it observes earlier overrides.
CallbackReturn(kind, tr) ==
    CASE kind = "none" -> <<>>
      [] kind = "set_lr" -> [lr |-> MaxLr]
      [] kind = "set_wd" -> [wd |-> 1]
      [] kind = "raise_lr" ->
            [lr |-> IF "lr" \in DOMAIN tr /\ tr.lr < MaxLr
                    THEN tr.lr + 1 ELSE 0]
      [] kind = "shift_model" -> [model |-> tr.module.weights + ModelShift]
      [] kind = "scale_model" -> [model |-> tr.module.weights * ModelScale]

RECURSIVE RunCallbacksStale(_, _, _, _)
RunCallbacksStale(tr0, tr, order, cbs) ==
    IF cbs = <<>> THEN [tr |-> tr, exc |-> ""]
    ELSE RunCallbacksStale(
            tr0, UpdateState(tr, order, CallbackReturn(Head(cbs), tr0)).tr,
            order, Tail(cbs))

\* a variant of RunCallbacks: every callback is handed the state before the
\* first one's overrides
RunCallbacksDeferred(tr, order, cbs) == RunCallbacksStale(tr, tr, order, cbs)

RECURSIVE RunCallbacks(_, _, _)
\* for cb in self._callbacks: self._update_state(cb.at_epoch_...(self, ...))
RunCallbacks(tr, order, cbs) ==
    IF cbs = <<>> THEN [tr |-> tr, exc |-> ""]
    ELSE LET us == UpdateState(tr, order, CallbackReturn(Head(cbs), tr))
         IN  IF us.exc # "" THEN us
             ELSE RunCallbacks(us.tr, order, Tail(cbs))

---------------------------------------------------------------------------
(* The epoch loop's checkpoints                                            *)

\* the file name _at_epoch_end hands to save_state for the periodic write
PeriodicName(backend, ep) == EpochStem(ep) \o CanonicalExt(backend)

\* the file name _at_epoch_end hands to save_state for the best write, and
\* _at_training_end tests and loads
BestName(backend) == BestStem \o CanonicalExt(backend)

\* a variant of PeriodicDue: the test on the epoch after
PeriodicDueNext(tr, ep) == (ep + 1) % tr.save_freq = 0

\* whether _at_epoch_end writes the periodic checkpoint
PeriodicDue(tr, ep) == ep % tr.save_freq = 0

\* a variant of BestDue: the best checkpoint written at every epoch end
BestDueAlways(best) == TRUE

\* whether _at_epoch_end writes the best checkpoint
BestDue(best) == best

\* a variant of EpochEndSaves: a best checkpoint file of its own per epoch
EpochEndSavesBestPerEpoch(backend, tr, ep, best) ==
    (IF PeriodicDue(tr, ep) THEN <<PeriodicName(backend, ep)>> ELSE <<>>)
    \o (IF BestDue(best)
        THEN <<BestStem \o US \o FormatInt(ep) \o CanonicalExt(backend)>>
        ELSE <<>>)

\* a variant of EpochEndSaves: the best checkpoint written first
EpochEndSavesBestFirst(backend, tr, ep, best) ==
    (IF BestDue(best) THEN <<BestName(backend)>> ELSE <<>>)
    \o (IF PeriodicDue(tr, ep) THEN <<PeriodicName(backend, ep)>> ELSE <<>>)

\* the save_state calls of _at_epoch_end, in order
EpochEndSaves(backend, tr, ep, best) ==
    (IF PeriodicDue(tr, ep) THEN <<PeriodicName(backend, ep)>> ELSE <<>>)
    \o (IF BestDue(best) THEN <<BestName(backend)>> ELSE <<>>)

RECURSIVE SaveAll(_, _, _, _, _)
SaveAll(backend, dir, tr, names, ep) ==
    IF names = <<>> THEN dir
    ELSE SaveAll(backend, SaveState(backend, dir, tr, Head(names), ep), tr,
                 Tail(names), ep)

\* the strict-improvement rule of the epoch loop
IsBetter(best_score, score) == best_score = None \/ score > best_score

\* whether _at_training_end loads the best checkpoint
BestExists(backend, dir) == BestName(backend) \in DOMAIN dir

---------------------------------------------------------------------------
(* The inputs: constructor arguments, host capabilities, directory content *)

OptNames == <<"default">>

\* the file names a save directory may hold before construction: periodic
\* and best checkpoints under the extensions of the backend, a checkpoint
\* under the name the fallback of the chainer _setup computes, and two other
\* files
InitNames(backend) ==
    LET exts == IF backend = "torch" THEN {PT, PTH} ELSE {CHAIN}
    IN  {EpochStem(n) \o e : n \in 0..MaxEpochNo, e \in exts}
        \cup {BestStem \o e : e \in exts}
        \cup (IF backend = "torch" THEN {}
              ELSE {EpochStem(MaxEpochNo) \o DropLast(CHAIN)})
        \cup {CHECKPOINT \o US \o FormatInt(12) \o CanonicalExt(backend),
              CHECKPOINT \o LOGEXT}

BundleKinds ==
    {"own", "with_epoch", "no_model", "no_epoch", "empty_optim",
     "foreign_optim", "no_model_foreign", "extra", "two_optims"}

\* the epoch number and the weights a file found at setup stands for
FileNo(x) ==
    IF IsInt(EpochField(x)) THEN ParseInt(EpochField(x)) ELSE MaxEpochNo + 1

\* the bundle of a file found at setup: "own" is what save_state writes;
\* the others are the artifacts of other writers of the same layout
InitBundle(kind, x) ==
    LET w == FileNo(x)
        o == [k \in {"default"} |-> 1]
        f == [k \in {"other"} |-> 1]
    IN  CASE kind = "own" -> SaveCheckpoint([weights |-> w], o, None)
          [] kind = "with_epoch" -> SaveCheckpoint([weights |-> w], o, w)
          [] kind = "no_model" -> [optimizer |-> o, epoch |-> w]
          [] kind = "no_epoch" -> [model |-> w, optimizer |-> o]
          [] kind = "empty_optim" -> SaveCheckpoint([weights |-> w], <<>>, w)
          [] kind = "foreign_optim" -> SaveCheckpoint([weights |-> w], f, w)
          [] kind = "no_model_foreign" -> [optimizer |-> f, epoch |-> w]
          [] kind = "extra" ->
                [model |-> w, optimizer |-> o, epoch |-> w, lr |-> 1]
          [] kind = "two_optims" ->
                SaveCheckpoint([weights |-> w],
                               [k \in {"default", "other"} |-> 1], w)

\* the sets of file names a save directory may hold before construction
InitNameSets(backend) ==
    {ns \in SUBSET InitNames(backend) : Cardinality(ns) <= MaxInitFiles}

InitDir(names, kind) == [x \in names |-> InitBundle(kind, x)]

\* the file names the trainer of a backend writes
OwnNames(backend) ==
    {PeriodicName(backend, n) : n \in 0..MaxEpochNo} \cup {BestName(backend)}

\* whether a directory holds nothing but what trainers of the backend wrote
OwnDir(backend, names, kind) ==
    names = {} \/ (kind = "own" /\ names \subseteq OwnNames(backend))

GpuIdLists ==
    {ids \in UNION {[1..n -> 0..(MaxGpus - 1)] : n \in 0..MaxGpus} :
        \A i, j \in 1..Len(ids) : i # j => ids[i] # ids[j]}

\* the native packages of the backends
NativePackages == {"torch", "tensorflow", "chainer", "jax"}

CallbackLists == UNION {[1..n -> CallbackKinds] : n \in 0..MaxCallbacks}

DefaultCfg(backend) ==
    [backend |-> backend, isdir |-> TRUE, fresh |-> TRUE,
     opt_names |-> OptNames, start_epoch |-> 1, save_freq |-> 1,
     val_freq |-> 1, num_epochs |-> 1, callbacks |-> <<>>,
     gpu_ids |-> <<>>, probe |-> "available", device_count |-> 1,
     chainerx |-> FALSE, criterions |-> None, losses |-> 1, own |-> TRUE,
     apex |-> FALSE, mixed_precision |-> FALSE,
     net_training |-> TRUE, global_train |-> TRUE,
     jax_losses |-> <<>>, jax_metrics |-> {}, jax_optimizer |-> "init",
     jit_accepts_self |-> TRUE, installed |-> NativePackages]

\* any directory before construction, any start_epoch
InitResume ==
    \E b \in Backends, kind \in BundleKinds, s \in 1..MaxStart :
        \E names \in InitNameSets(b) :
            /\ cfg = [DefaultCfg(b) EXCEPT !.fresh = (names = {}),
                                           !.own = OwnDir(b, names, kind),
                                           !.start_epoch = s]
            /\ files = InitDir(names, kind)

\* a directory holding best checkpoints only, and a run of one epoch with
\* or without a validation pass
InitStaleBest ==
    \E b \in Backends, kind \in BundleKinds, v \in 1..2 :
        \E names \in SUBSET {x \in InitNames(b) : StartsWith(x, BestStem)} :
            /\ cfg = [DefaultCfg(b) EXCEPT !.fresh = (names = {}),
                                           !.own = OwnDir(b, names, kind),
                                           !.val_freq = v]
            /\ files = InitDir(names, kind)

\* no directory yet
InitNoDir ==
    \E b \in Backends :
        /\ cfg = [DefaultCfg(b) EXCEPT !.isdir = FALSE]
        /\ files = <<>>

\* any accelerator request on any host, on a fresh run or on a directory
\* with one checkpoint, written by save_state or by a writer that stores
\* the epoch
InitDevices ==
    \E b \in Backends, ids \in GpuIdLists,
       p \in {"available", "unavailable", "raises"},
       n \in 1..MaxGpus, x \in BOOLEAN,
       kind \in {"own", "with_epoch"}, some \in BOOLEAN :
        /\ cfg = [DefaultCfg(b) EXCEPT !.fresh = ~some, !.gpu_ids = ids,
                                       !.own = (~some \/ kind = "own"),
                                       !.probe = p, !.device_count = n,
                                       !.chainerx = x]
        /\ files = InitDir(IF some THEN {EpochStem(1) \o CanonicalExt(b)}
                           ELSE {}, kind)

\* any schedule of a fresh run
InitSchedule ==
    \E b \in Backends, s \in 0..MaxStart, f \in 1..MaxSaveFreq,
       v \in 1..2, n \in 1..MaxNumEpochs :
        /\ cfg = [DefaultCfg(b) EXCEPT !.start_epoch = s, !.save_freq = f,
                                       !.val_freq = v, !.num_epochs = n]
        /\ files = <<>>

\* any list of callbacks, on a fresh run of two epochs
InitCallbacks ==
    \E b \in Backends, cbs \in CallbackLists :
        /\ cfg = [DefaultCfg(b) EXCEPT !.callbacks = cbs, !.num_epochs = 2]
        /\ files = <<>>

\* the optimizer names of an optim_fn that builds two optimizers, in the
\* order of its mapping
OptNameLists == {<<"default", "other">>, <<"other", "default">>}

\* a trainer with two optimizers, on one or several devices, on a fresh run
\* or on a directory with one checkpoint
InitTwoOptims ==
    \E b \in Backends, kind \in BundleKinds, order \in OptNameLists,
       ids \in {<<>>, <<0, 1>>}, some \in BOOLEAN :
        /\ cfg = [DefaultCfg(b) EXCEPT !.fresh = ~some, !.own = ~some,
                                       !.opt_names = order,
                                       !.gpu_ids = ids, !.device_count = 2]
        /\ files = InitDir(IF some THEN {EpochStem(1) \o CanonicalExt(b)}
                           ELSE {}, kind)

\* the loss mappings handed as 'losses' and 'criterions': None or a mapping
LossArgs == {None} \cup (1..MaxLosses)

\* any pair of 'criterions' and 'losses' arguments, on a fresh run; the
\* chainer trainer has no 'criterions' argument
InitLosses ==
    \E b \in Backends, cr \in LossArgs, l \in LossArgs :
        /\ b = "chainer" => cr = None
        /\ cfg = [DefaultCfg(b) EXCEPT !.criterions = cr, !.losses = l]
        /\ files = <<>>

\* a host with or without apex, mixed precision requested or not, one or
\* two optimizers, on a fresh run; only the torch trainer imports apex
InitMixedPrecision ==
    \E b \in Backends, a \in BOOLEAN, mp \in BOOLEAN,
       order \in {OptNames} \cup OptNameLists :
        /\ b = "chainer" => ~a
        /\ cfg = [DefaultCfg(b) EXCEPT !.apex = a, !.mixed_precision = mp,
                                       !.opt_names = order]
        /\ files = <<>>

---------------------------------------------------------------------------
(* The lifecycle                                                           *)

\* Optimizer.__init__ sets _curr_step = 0; from_model builds an Optimizer
\* and returns nothing, so the caller holds None (is_none)
NewJaxOptimizer(how) ==
    [is_none |-> (how # "init"), curr_step |-> 0, state |-> 0]

\* no closure invocation yet
NoClosure(c) ==
    [opt |-> NewJaxOptimizer(c.jax_optimizer), calls |-> 0, exc |-> "",
     loss_vals |-> {}, metric_vals |-> {}, grads |-> 0]

\* no delira module imported yet
NoImports == [imported |-> {}, exposed |-> {}, failed |-> {}, warnings |-> {}]

\* no pass over data yet
NoPass == [pass |-> "none", train |-> TRUE]

\* no direct load_state call yet
NoLoad == [arg |-> <<>>, name |-> <<>>, exc |-> "", bundle |-> <<>>]

\* the variables a constructor call starts from
Unconstructed ==
    /\ trainer = <<>>
    /\ pc = "uninitialized"
    /\ raised = ""
    /\ log = {}
    /\ resume = NoResume
    /\ epoch = None
    /\ stop_epoch = None
    /\ is_best = FALSE
    /\ best_val_score = None
    /\ seen = {}
    /\ new_score = None
    /\ saves = <<>>
    /\ returned = None
    /\ loaded = NoLoad
    /\ global_config = [train |-> cfg.global_train, dtype |-> "float32"]
    /\ running = NoPass
    /\ jax_run = NoClosure(cfg)
    /\ pkg = NoImports

Init ==
    /\ InitResume \/ InitStaleBest \/ InitNoDir \/ InitDevices \/ InitSchedule \/ InitCallbacks
       \/ InitLosses \/ InitTwoOptims \/ InitMixedPrecision
    /\ Unconstructed

\* PyTorchNetworkTrainer(...) / ChainerNetworkTrainer(...)
Construct ==
    /\ pc = "uninitialized"
    /\ LET st == Setup(cfg, files)
       IN  /\ trainer' = st.tr
           /\ log' = st.log
           /\ resume' = st.resume
           /\ raised' = st.exc
           /\ pc' = IF st.exc = "" THEN "setup" ELSE "error"
    /\ global_config' = SetupGlobalConfig(cfg, global_config)
    /\ UNCHANGED <<cfg, jax_run, pkg, running, loaded, files, epoch, stop_epoch, is_best, best_val_score,
                   seen, new_score, saves, returned>>

\* train(): _at_training_begin, then the entry of the epoch loop, whose
\* range(start_epoch, ...) raises TypeError on a start_epoch of None
AtTrainingBegin ==
    /\ pc = "setup"
    /\ files' = SaveState(cfg.backend, files, trainer, EpochStem(0), 0)
    /\ saves' = Append(saves, <<EpochStem(0), 0>>)
    /\ IF trainer.start_epoch = None
       THEN /\ pc' = "error"
            /\ raised' = "TypeError"
            /\ UNCHANGED <<epoch, stop_epoch>>
       ELSE /\ pc' = "epoch_begin"
            /\ epoch' = trainer.start_epoch
            /\ stop_epoch' = trainer.start_epoch + cfg.num_epochs
            /\ UNCHANGED raised
    /\ UNCHANGED <<cfg, jax_run, pkg, global_config, running, loaded, trainer, log, resume, is_best, best_val_score, seen,
                   new_score, returned>>

\* _at_epoch_begin
AtEpochBegin ==
    /\ pc = "epoch_begin"
    /\ LET rc == RunCallbacks(trainer, cfg.opt_names, cfg.callbacks)
       IN  /\ trainer' = rc.tr
           /\ raised' = rc.exc
           /\ pc' = IF rc.exc = "" THEN "train" ELSE "error"
    /\ UNCHANGED <<cfg, jax_run, pkg, global_config, running, loaded, files, log, resume, epoch, stop_epoch, is_best,
                   best_val_score, seen, new_score, saves, returned>>

\* one training pass: every closure call steps the model and the optimizers
TrainedModule(module) == [module EXCEPT !.weights = @ + 1]
TrainedOptimizers(optimizers) == [k \in DOMAIN optimizers |-> optimizers[k] + 1]

\* a variant of PredictMode: predict_data_mgr leaves the flag as it is
PredictModeKeep(backend, gc) == gc

\* the first statement of _train_single_epoch: chainer sets the global
\* train flag; torch calls self.module.train() instead
TrainMode(backend, gc) ==
    IF backend = "chainer" THEN [gc EXCEPT !.train = TRUE] ELSE gc

ModuleTrain(backend, module) ==
    IF backend = "torch" THEN [module EXCEPT !.training = TRUE] ELSE module

\* the first statement of chainer's predict_data_mgr; the torch trainer
\* does not override predict_data_mgr
PredictMode(backend, gc) ==
    IF backend = "chainer" THEN [gc EXCEPT !.train = FALSE] ELSE gc

\* _train_single_epoch
TrainSingleEpoch ==
    /\ pc = "train"
    /\ global_config' = TrainMode(cfg.backend, global_config)
    /\ running' = [pass |-> "train", train |-> global_config'.train]
    /\ trainer' = [trainer EXCEPT
                      !.module = TrainedModule(ModuleTrain(cfg.backend, @)),
                      !.optimizers = TrainedOptimizers(@)]
    /\ pc' = "validate"
    /\ UNCHANGED <<cfg, jax_run, pkg, loaded, files, raised, log, resume, epoch, stop_epoch,
                   is_best, best_val_score, seen, new_score, saves, returned>>

\* the validation pass of an epoch with epoch % val_freq == 0, a
\* predict_data_mgr pass over the validation data
Validate ==
    /\ pc = "validate"
    /\ epoch % cfg.val_freq = 0
    /\ global_config' = PredictMode(cfg.backend, global_config)
    /\ running' = [pass |-> "predict", train |-> global_config'.train]
    /\ \E score \in 0..MaxScore :
        /\ new_score' = score
        /\ is_best' = IsBetter(best_val_score, score)
        /\ best_val_score' =
              IF IsBetter(best_val_score, score) THEN score
              ELSE best_val_score
    /\ pc' = "epoch_end"
    /\ UNCHANGED <<cfg, jax_run, pkg, loaded, files, trainer, raised, log, resume, epoch,
                   stop_epoch, seen, saves, returned>>

\* an epoch without validation
SkipValidation ==
    /\ pc = "validate"
    /\ epoch % cfg.val_freq # 0
    /\ new_score' = None
    /\ is_best' = FALSE
    /\ pc' = "epoch_end"
    /\ UNCHANGED <<cfg, jax_run, pkg, global_config, running, loaded, files, trainer, raised, log, resume, epoch,
                   stop_epoch, best_val_score, seen, saves, returned>>

\* _at_epoch_end, then the loop's step
AtEpochEnd ==
    /\ pc = "epoch_end"
    /\ LET rc == RunCallbacks(trainer, cfg.opt_names, cfg.callbacks)
           names == EpochEndSaves(cfg.backend, rc.tr, epoch, is_best)
       IN  /\ trainer' = rc.tr
           /\ raised' = rc.exc
           /\ IF rc.exc # ""
              THEN /\ pc' = "error"
                   /\ UNCHANGED <<files, saves, epoch, is_best, seen>>
              ELSE /\ files' = SaveAll(cfg.backend, files, rc.tr, names, epoch)
                   /\ saves' = saves \o
                        [i \in 1..Len(names) |-> <<names[i], epoch>>]
                   /\ seen' = IF new_score = None THEN seen
                              ELSE seen \cup {new_score}
                   /\ is_best' = FALSE
                   /\ epoch' = epoch + 1
                   /\ pc' = IF epoch + 1 < stop_epoch THEN "epoch_begin"
                            ELSE "training_end"
    /\ UNCHANGED <<cfg, jax_run, pkg, global_config, running, loaded, log, resume, stop_epoch, best_val_score, new_score,
                   returned>>

\* _at_training_end
AtTrainingEnd ==
    /\ pc = "training_end"
    /\ LET us == IF BestExists(cfg.backend, files)
                 THEN UpdateStateFromFile(cfg.backend, files, trainer,
                                          cfg.opt_names, BestName(cfg.backend))
                 ELSE [tr |-> trainer, exc |-> ""]
       IN  /\ trainer' = us.tr
           /\ raised' = us.exc
           /\ pc' = IF us.exc = "" THEN "done" ELSE "error"
           /\ returned' = IF us.exc = "" THEN us.tr.module.weights ELSE None
    /\ UNCHANGED <<cfg, jax_run, pkg, global_config, running, loaded, files, log, resume, epoch, stop_epoch, is_best,
                   best_val_score, seen, new_score, saves>>

Next ==
    \/ Construct
    \/ AtTrainingBegin
    \/ AtEpochBegin
    \/ TrainSingleEpoch
    \/ Validate
    \/ SkipValidation
    \/ AtEpochEnd
    \/ AtTrainingEnd

Spec == Init /\ [][Next]_vars

---------------------------------------------------------------------------
(* Training with callbacks whose overrides reach the checkpoints           *)

ModelCallbackLists ==
    UNION {[1..n -> ModelCallbackKinds] : n \in 0..MaxModelCallbacks}

\* any list of callbacks that return a model state, on a fresh run of one or
\* two epochs under any save and validation frequency up to two
InitModelCallbacks ==
    /\ \E b \in Backends, cbs \in ModelCallbackLists, f \in 1..2, v \in 1..2,
          n \in 1..2 :
        /\ cfg = [DefaultCfg(b) EXCEPT !.callbacks = cbs, !.save_freq = f,
                                       !.val_freq = v, !.num_epochs = n]
        /\ files = <<>>
    /\ Unconstructed

CallbackSpec == InitModelCallbacks /\ [][Next]_vars

---------------------------------------------------------------------------
(* A script that constructs a trainer and calls save_state and load_state  *)
(* itself, with file names of its own choice                               *)

\* the file_name arguments of the script: a checkpoint name and a name of
\* its own, bare or with an extension
ApiNames ==
    {st \o e : st \in {EpochStem(1), <<"m">>},
               e \in {<<>>, PT, PTH, CHAIN, DropLast(CHAIN)}}

\* a fresh save directory, or one holding a checkpoint
InitApi ==
    /\ \E b \in Backends, some \in BOOLEAN :
        /\ cfg = [DefaultCfg(b) EXCEPT !.fresh = ~some, !.own = ~some]
        /\ files = InitDir(IF some THEN {EpochStem(1) \o CanonicalExt(b)}
                           ELSE {}, "with_epoch")
    /\ Unconstructed

\* trainer.save_state(file_name, epoch)
SaveStateCall ==
    /\ pc = "setup"
    /\ Len(saves) < MaxCalls
    /\ \E file_name \in ApiNames :
        /\ files' = SaveState(cfg.backend, files, trainer, file_name,
                              Len(saves))
        /\ saves' = Append(saves, <<file_name, Len(saves)>>)
    /\ UNCHANGED <<cfg, jax_run, pkg, global_config, running, loaded, trainer, pc, raised, log, resume, epoch,
                   stop_epoch, is_best, best_val_score, seen, new_score,
                   returned>>

\* a variant of LoadStateOn: the bundle is applied to the trainer as well
LoadStateOnApplying(backend, dir, tr, order, file_name) ==
    [tr |-> UpdateStateFromFile(backend, dir, tr, order, file_name).tr,
     ret |-> LoadState(backend, dir, file_name)]

\* load_state called on a trainer: the trainer after the call and what the
\* call returns or raises; load_state is a staticmethod and has no self
LoadStateOn(backend, dir, tr, order, file_name) ==
    [tr |-> tr, ret |-> LoadState(backend, dir, file_name)]

\* trainer.load_state(file_name)
LoadStateCall ==
    /\ pc = "setup"
    /\ \E file_name \in ApiNames :
        LET ld == LoadStateOn(cfg.backend, files, trainer, cfg.opt_names,
                              file_name)
        IN  /\ loaded' = [arg |-> file_name,
                          name |-> LoadFileName(cfg.backend, file_name),
                          exc |-> ld.ret.exc, bundle |-> ld.ret.bundle]
            /\ trainer' = ld.tr
    /\ UNCHANGED <<cfg, jax_run, pkg, global_config, running, files, pc, raised, log, resume, epoch,
                   stop_epoch, is_best, best_val_score, seen, new_score,
                   saves, returned>>

NextApi ==
    \/ Construct
    \/ SaveStateCall
    \/ LoadStateCall

ApiSpec == InitApi /\ [][NextApi]_vars

---------------------------------------------------------------------------
(* A script that constructs a trainer and calls load_state and             *)
(* update_state itself, on a directory of checkpoints of any writer        *)

\* a directory holding a checkpoint the resume step finds, a checkpoint
\* under a name it does not scan, both or none, on any device request
InitUpdate ==
    /\ \E b \in Backends, kind \in BundleKinds,
          ids \in {<<>>, <<0>>, <<0, 1>>} :
        \E names \in SUBSET {EpochStem(1) \o CanonicalExt(b),
                             <<"m">> \o CanonicalExt(b)} :
            /\ cfg = [DefaultCfg(b) EXCEPT !.fresh = (names = {}),
                                           !.own = (names = {}),
                                           !.gpu_ids = ids,
                                           !.device_count = 2]
            /\ files = InitDir(names, kind)
    /\ Unconstructed

\* trainer.update_state(file_name); an exception ends the script
UpdateStateCall ==
    /\ pc = "setup"
    /\ \E file_name \in ApiNames :
        LET us == UpdateStateFromFile(cfg.backend, files, trainer,
                                      cfg.opt_names, file_name)
        IN  /\ trainer' = us.tr
            /\ raised' = us.exc
            /\ pc' = IF us.exc = "" THEN "setup" ELSE "error"
    /\ UNCHANGED <<cfg, jax_run, pkg, global_config, running, loaded, files, log, resume, epoch, stop_epoch,
                   is_best, best_val_score, seen, new_score, saves, returned>>

NextUpdate ==
    \/ Construct
    \/ LoadStateCall
    \/ UpdateStateCall

UpdateSpec == InitUpdate /\ [][NextUpdate]_vars

---------------------------------------------------------------------------
(* Training runs interleaved with predict_data_mgr calls of the script      *)

\* any schedule of a fresh run, in a process whose train flag and whose
\* network's mode are either way when the script starts
InitMode ==
    /\ \E b \in Backends, n \in 1..MaxNumEpochs, v \in 1..2,
          g \in BOOLEAN, t \in BOOLEAN, mp \in BOOLEAN :
        /\ cfg = [DefaultCfg(b) EXCEPT !.num_epochs = n, !.val_freq = v,
                                       !.global_train = g,
                                       !.net_training = t,
                                       !.mixed_precision = mp]
        /\ files = <<>>
    /\ Unconstructed

\* trainer.predict_data_mgr(datamgr), called by the script before or after
\* train()
PredictDataMgrCall ==
    /\ pc \in {"setup", "done"}
    /\ global_config' = PredictMode(cfg.backend, global_config)
    /\ running' = [pass |-> "predict", train |-> global_config'.train]
    /\ UNCHANGED <<cfg, jax_run, pkg, loaded, files, trainer, pc, raised, log, resume,
                   epoch, stop_epoch, is_best, best_val_score, seen,
                   new_score, saves, returned>>

NextMode ==
    \/ Next
    \/ PredictDataMgrCall

ModeSpec == InitMode /\ [][NextMode]_vars

---------------------------------------------------------------------------
(* The closure of a JAX network and its optimizer                          *)

MaxClosures == 3
MaxLossKeys == 2

\* the keys a loss mapping may have: strings of one, two and three
\* characters, and pairs (name, callable)
StrKey(chars) == [pair |-> FALSE, chars |-> chars]
PairKey(chars) == [pair |-> TRUE, chars |-> chars]
LossKeys ==
    {StrKey(<<"a">>), StrKey(<<"l", "1">>), StrKey(<<"m", "s", "e">>),
     PairKey(<<"p">>), PairKey(<<"q">>)}

\* the loss mappings, as the sequence of their keys in iteration order
LossMappings ==
    {l \in UNION {[1..n -> LossKeys] : n \in 0..MaxLossKeys} :
        \A i, j \in 1..Len(l) : i # j => l[i] # l[j]}

\* `for key, loss_fn in losses:` iterates over the mapping's keys and
\* unpacks each key into two names: [exc, key, callable]
UnpackKey(k) ==
    IF k.pair THEN [exc |-> "", key |-> StrKey(k.chars), callable |-> TRUE]
    ELSE IF Len(k.chars) = 2
         THEN [exc |-> "", key |-> StrKey(<<k.chars[1]>>), callable |-> FALSE]
         ELSE [exc |-> "ValueError", key |-> k, callable |-> FALSE]

RECURSIVE LossLoop(_, _, _)
\* the loop over the losses: [exc, loss_vals (its keys), grads (how many
\* gradients were appended)]
LossLoop(losses, vals, grads) ==
    IF losses = <<>> THEN [exc |-> "", loss_vals |-> vals, grads |-> grads]
    ELSE LET u == UnpackKey(Head(losses))
         IN  IF u.exc # ""
             THEN [exc |-> u.exc, loss_vals |-> vals, grads |-> grads]
             ELSE IF ~u.callable
             THEN [exc |-> "TypeError", loss_vals |-> vals, grads |-> grads]
             ELSE LossLoop(Tail(losses), vals \cup {u.key}, grads + 1)

\* _accumulate_gradients(*gradients) reads gradients[0]
AccumulateGradients(grads) == IF grads = 0 THEN "IndexError" ELSE ""

\* optimizers["default"].apply_update(gradients): [exc, opt].  The method
\* is wrapped by jax.jit with self as a traced argument, which a jax build
\* accepts or rejects with TypeError; the body discards what self._update
\* returns and adds one to _curr_step
ApplyUpdate(opt, jit_accepts_self) ==
    IF opt.is_none THEN [exc |-> "AttributeError", opt |-> opt]
    ELSE IF ~jit_accepts_self THEN [exc |-> "TypeError", opt |-> opt]
    ELSE [exc |-> "", opt |-> [opt EXCEPT !.curr_step = @ + 1]]

\* closure(model, data_dict, optimizers, losses, metrics):
\* [exc, opt, loss_vals, metric_vals, grads]
Closure(c, opt) ==
    LET ll == LossLoop(c.jax_losses, {}, 0)
        acc == AccumulateGradients(ll.grads)
        up == ApplyUpdate(opt, c.jit_accepts_self)
        none == [exc |-> "", opt |-> opt, loss_vals |-> {},
                 metric_vals |-> {}, grads |-> ll.grads]
    IN  IF ll.exc # "" THEN [none EXCEPT !.exc = ll.exc]
        ELSE IF acc # "" THEN [none EXCEPT !.exc = acc]
        ELSE IF up.exc # "" THEN [none EXCEPT !.exc = up.exc]
        ELSE [exc |-> "", opt |-> up.opt, loss_vals |-> ll.loss_vals,
              metric_vals |-> c.jax_metrics, grads |-> ll.grads]

\* any loss mapping, with or without a metric, an optimizer built by the
\* constructor or by from_model, on either kind of jax build
InitJax ==
    /\ \E l \in LossMappings, m \in SUBSET {"acc"},
          how \in {"init", "from_model"}, j \in BOOLEAN :
        cfg = [DefaultCfg("jax") EXCEPT !.jax_losses = l, !.jax_metrics = m,
                                       !.jax_optimizer = how,
                                       !.jit_accepts_self = j]
    /\ files = <<>>
    /\ Unconstructed

\* one batch of a training pass: one closure invocation; an exception ends
\* the pass
ClosureCall ==
    /\ jax_run.exc = ""
    /\ jax_run.calls < MaxClosures
    /\ LET r == Closure(cfg, jax_run.opt)
       IN  jax_run' = [opt |-> r.opt, calls |-> jax_run.calls + 1,
                       exc |-> r.exc, loss_vals |-> r.loss_vals,
                       metric_vals |-> r.metric_vals, grads |-> r.grads]
    /\ UNCHANGED <<cfg, pkg, global_config, running, loaded, files, trainer,
                   pc, raised, log, resume, epoch, stop_epoch, is_best,
                   best_val_score, seen, new_score, saves, returned>>

\* optimizer.apply_update(gradients), called by the script itself; an
\* exception ends the script
ApplyUpdateCall ==
    /\ jax_run.exc = ""
    /\ jax_run.opt.curr_step < MaxClosures
    /\ LET r == ApplyUpdate(jax_run.opt, cfg.jit_accepts_self)
       IN  jax_run' = [jax_run EXCEPT !.opt = r.opt, !.exc = r.exc]
    /\ UNCHANGED <<cfg, pkg, global_config, running, loaded, files, trainer,
                   pc, raised, log, resume, epoch, stop_epoch, is_best,
                   best_val_score, seen, new_score, saves, returned>>

NextJax ==
    \/ ClosureCall
    \/ ApplyUpdateCall

JaxSpec == InitJax /\ [][NextJax]_vars

---------------------------------------------------------------------------
(* Importing the packages on a host with some of the native packages       *)

\* delira.get_backends(): the backends whose native package is importable
GetBackends(installed) ==
    {b \in {"TORCH", "TF", "CHAINER"} :
        \/ b = "TORCH" /\ "torch" \in installed
        \/ b = "TF" /\ "tensorflow" \in installed
        \/ b = "CHAINER" /\ "chainer" \in installed}

TRAINING == "delira.training"
GAN == "delira.models.gan"
PYTORCH_TRAINER == "delira.training.pytorch_trainer"
CHAINER_TRAINER == "delira.training.backends.chainer.trainer"
JAX_NETWORK == "delira.models.backends.jax.abstract_network"

Modules == {TRAINING, GAN, PYTORCH_TRAINER, CHAINER_TRAINER, JAX_NETWORK}

\* the result of running a module's top-level code: [exc, names (what the
\* module exposes: the names it binds, for a package with __all__ its
\* __all__), also (modules imported on the way), warnings]
Imported(names, also) ==
    [exc |-> "", names |-> names, also |-> also, warnings |-> {}]

ImportFailed(exc, warnings) ==
    [exc |-> exc, names |-> {}, also |-> {}, warnings |-> warnings]

\* delira/training/pytorch_trainer.py: the class statement is under
\* `if "TORCH" in get_backends():`
RunPytorchTrainer(installed) ==
    Imported(IF "TORCH" \in GetBackends(installed)
             THEN {"PyTorchNetworkTrainer"} ELSE {}, {})

\* delira/training/__init__.py
RunTraining(installed) ==
    LET be == GetBackends(installed)
    IN  Imported({"Parameters", "AbstractExperiment", "AbstractNetworkTrainer"}
                   \cup (IF "TORCH" \in be
                         THEN {"PyTorchExperiment", "PyTorchNetworkTrainer"}
                         ELSE {})
                   \cup (IF "TF" \in be
                         THEN {"TfExperiment", "TfNetworkTrainer"} ELSE {}),
                 IF "TORCH" \in be THEN {PYTORCH_TRAINER} ELSE {})

\* delira/models/gan/__init__.py: the import of the torch model raises
\* ModuleNotFoundError without torch; the except branch warns and re-raises
RunGan(installed) ==
    IF "torch" \in installed
    THEN Imported({"GenerativeAdversarialNetworkBasePyTorch"}, {})
    ELSE ImportFailed("ModuleNotFoundError", {"ImportWarning"})

\* delira/training/backends/chainer/trainer.py: `import chainer` at the top
RunChainerTrainer(installed) ==
    IF "chainer" \in installed
    THEN Imported({"ChainerNetworkTrainer"}, {})
    ELSE ImportFailed("ModuleNotFoundError", {})

\* delira/models/backends/jax/abstract_network.py: `import jax` at the top
RunJaxNetwork(installed) ==
    IF "jax" \in installed
    THEN Imported({"AbstractJaxNetwork"}, {})
    ELSE ImportFailed("ModuleNotFoundError", {})

RunModule(m, installed) ==
    CASE m = TRAINING -> RunTraining(installed)
      [] m = GAN -> RunGan(installed)
      [] m = PYTORCH_TRAINER -> RunPytorchTrainer(installed)
      [] m = CHAINER_TRAINER -> RunChainerTrainer(installed)
      [] m = JAX_NETWORK -> RunJaxNetwork(installed)

\* `import m` in a process p: a module imported before is not run again; a
\* module that raises is not kept, and the modules it imported are
RECURSIVE ImportModule(_, _, _)
ImportModule(p, m, installed) ==
    IF m \in p.imported THEN p
    ELSE LET r == RunModule(m, installed)
             q == IF r.also = {} THEN p
                  ELSE ImportModule(p, CHOOSE a \in r.also : TRUE, installed)
         IN  [imported |-> q.imported \cup
                              (IF r.exc = "" THEN {m} ELSE {}),
              exposed |-> q.exposed \cup {<<m, n>> : n \in r.names},
              failed |-> q.failed \cup
                            (IF r.exc = "" THEN {} ELSE {<<m, r.exc>>}),
              warnings |-> q.warnings \cup r.warnings]

\* a host with any set of native packages
InitImport ==
    /\ \E inst \in SUBSET NativePackages :
        cfg = [DefaultCfg("none") EXCEPT !.installed = inst]
    /\ files = <<>>
    /\ Unconstructed

\* the script imports one of the modules and goes on, whether it raised
\* or not
ImportTraining ==
    /\ TRAINING \notin pkg.imported
    /\ pkg' = ImportModule(pkg, TRAINING, cfg.installed)
    /\ UNCHANGED <<cfg, jax_run, global_config, running, loaded, files,
                   trainer, pc, raised, log, resume, epoch, stop_epoch,
                   is_best, best_val_score, seen, new_score, saves, returned>>

ImportGan ==
    /\ GAN \notin pkg.imported
    /\ pkg' = ImportModule(pkg, GAN, cfg.installed)
    /\ UNCHANGED <<cfg, jax_run, global_config, running, loaded, files,
                   trainer, pc, raised, log, resume, epoch, stop_epoch,
                   is_best, best_val_score, seen, new_score, saves, returned>>

ImportPytorchTrainer ==
    /\ PYTORCH_TRAINER \notin pkg.imported
    /\ pkg' = ImportModule(pkg, PYTORCH_TRAINER, cfg.installed)
    /\ UNCHANGED <<cfg, jax_run, global_config, running, loaded, files,
                   trainer, pc, raised, log, resume, epoch, stop_epoch,
                   is_best, best_val_score, seen, new_score, saves, returned>>

ImportChainerTrainer ==
    /\ CHAINER_TRAINER \notin pkg.imported
    /\ pkg' = ImportModule(pkg, CHAINER_TRAINER, cfg.installed)
    /\ UNCHANGED <<cfg, jax_run, global_config, running, loaded, files,
                   trainer, pc, raised, log, resume, epoch, stop_epoch,
                   is_best, best_val_score, seen, new_score, saves, returned>>

ImportJaxNetwork ==
    /\ JAX_NETWORK \notin pkg.imported
    /\ pkg' = ImportModule(pkg, JAX_NETWORK, cfg.installed)
    /\ UNCHANGED <<cfg, jax_run, global_config, running, loaded, files,
                   trainer, pc, raised, log, resume, epoch, stop_epoch,
                   is_best, best_val_score, seen, new_score, saves, returned>>

NextImport ==
    \/ ImportTraining
    \/ ImportGan
    \/ ImportPytorchTrainer
    \/ ImportChainerTrainer
    \/ ImportJaxNetwork

ImportSpec == InitImport /\ [][NextImport]_vars

---------------------------------------------------------------------------
(* Properties                                                              *)

AcceptedExts(backend) == IF backend = "torch" THEN {PT, PTH} ELSE {CHAIN}

\* checkpoint_epoch_<N>.<ext> and checkpoint_best.<ext>
IsPeriodicFile(backend, x) ==
    \E e \in AcceptedExts(backend) : x = EpochStem(FileNo(x)) \o e
IsBestCheckpoint(backend, x) ==
    \E e \in AcceptedExts(backend) : x = BestStem \o e

\* the constructor has returned or raised and no save_state has run: the
\* directory is as the constructor found it
AfterSetup == pc # "uninitialized" /\ saves = <<>>

\* torch.device("cpu") and chainer's cpu_device_prefix devices
IsCpu(d) == d.kind \in {"cpu", "native", "numpy"}

ResumeRaised == raised \in {"ValueError", "FileNotFoundError"}
PlacementRaised == raised = "RuntimeError"
Warned == "warning: previous state could not be loaded" \in log

\* C1: after save_state(path, E), load_state(path) returns a bundle whose
\* epoch field equals E (stated of the latest save_state call).
C1_RoundTrip ==
    saves # <<>> =>
        LET last == saves[Len(saves)]
            ld == LoadState(cfg.backend, files, last[1])
        IN  /\ ld.exc = ""
            /\ "epoch" \in DOMAIN ld.bundle
            /\ ld.bundle.epoch = last[2]

PeriodicFiles == {x \in DOMAIN files : IsPeriodicFile(cfg.backend, x)}

OnlyCheckpoints ==
    \A x \in DOMAIN files :
        IsPeriodicFile(cfg.backend, x) \/ IsBestCheckpoint(cfg.backend, x)

\* C2: when the save directory holds periodic checkpoint files (and
\* possibly best checkpoints) at setup, the resume step loads the periodic
\* checkpoint of the largest epoch number.
C2_ResumeSelectsMax ==
    (AfterSetup /\ cfg.isdir /\ OnlyCheckpoints /\ PeriodicFiles # {}) =>
        /\ resume.attempted
        /\ resume.path \in PeriodicFiles
        /\ \A x \in PeriodicFiles : FileNo(x) <= FileNo(resume.path)
        /\ resume.latest_epoch = FileNo(resume.path)
        /\ resume.exc \in {"", "KeyError"}
        /\ resume.bundle = files[resume.path]

C2_Witness ==
    /\ AfterSetup /\ OnlyCheckpoints
    /\ \E x, y \in PeriodicFiles : FileNo(x) < FileNo(y)
    /\ \E x \in DOMAIN files : IsBestCheckpoint(cfg.backend, x)
    /\ resume.attempted

\* the resume step loaded a bundle that has no "model" key
LacksModel ==
    /\ resume.attempted
    /\ resume.exc # "FileNotFoundError"
    /\ "model" \notin DOMAIN resume.bundle

LacksOptimizerKey(bundle) ==
    /\ "optimizer" \in DOMAIN bundle
    /\ DOMAIN bundle.optimizer # {}
    /\ \E i \in 1..Len(cfg.opt_names) :
          cfg.opt_names[i] \notin DOMAIN bundle.optimizer

CadenceEpochs ==
    {0} \cup {e \in cfg.start_epoch..(cfg.start_epoch + cfg.num_epochs - 1) :
                 e % cfg.save_freq = 0}

\* C4: after the training of a fresh run, the checkpoint_epoch_<N> files are
\* those of epoch 0 and of every epoch e of [s, s+n) with e mod f = 0, and
\* no others.
C4_PeriodicCadence ==
    (pc \in {"training_end", "done"} /\ cfg.fresh) =>
        {x \in DOMAIN files : StartsWith(x, CHECKPOINT \o US \o EPOCH \o US)}
            = {EpochStem(e) \o CanonicalExt(cfg.backend) : e \in CadenceEpochs}

C4_Witness ==
    /\ pc = "done" /\ cfg.fresh
    /\ cfg.save_freq = 3 /\ cfg.start_epoch = 1 /\ cfg.num_epochs = 3
    /\ EpochStem(3) \o CanonicalExt(cfg.backend) \in DOMAIN files
    /\ EpochStem(2) \o CanonicalExt(cfg.backend) \notin DOMAIN files

\* the number of save_state calls for the best checkpoint so far
BestWrites ==
    Cardinality({i \in 1..Len(saves) : saves[i][1] = BestName(cfg.backend)})

\* C5: at the end of an epoch the best checkpoint is written exactly when
\* the epoch's validation score strictly exceeds every earlier score, and
\* then it holds the trainer's state; otherwise the best checkpoint file is
\* left as it was.
C5_BestWrite ==
    [][(pc = "epoch_end" /\ pc' # "error") =>
        LET name == BestName(cfg.backend)
            wrote == \E i \in (Len(saves) + 1)..Len(saves') :
                        saves'[i][1] = name
            exceeds == new_score # None /\ \A p \in seen : new_score > p
        IN  /\ wrote <=> exceeds
            /\ wrote => /\ name \in DOMAIN files'
                        /\ files'[name].model = trainer'.module.weights
            /\ ~wrote => /\ (name \in DOMAIN files') = (name \in DOMAIN files)
                         /\ name \in DOMAIN files => files'[name] = files[name]
      ]_vars

C5_Witness ==
    /\ pc = "done" /\ cfg.num_epochs = 3 /\ cfg.val_freq = 1
    /\ Cardinality(seen) = 2
    /\ BestWrites = 2

\* C6: with no accelerator id, or with a probe that reports no accelerator,
\* device placement raises nothing and ends with use_gpu false, both
\* devices the CPU and the module not wrapped.
C6_DeviceFallback ==
    (/\ pc # "uninitialized" /\ ~ResumeRaised
     /\ cfg.gpu_ids = <<>> \/ cfg.probe = "unavailable") =>
        /\ ~PlacementRaised
        /\ trainer.use_gpu = FALSE
        /\ IsCpu(trainer.input_device)
        /\ IsCpu(trainer.output_device)
        /\ trainer.input_device = trainer.output_device
        /\ trainer.module.device = trainer.input_device
        /\ trainer.module.device_ids = <<>>

C6_Witness ==
    /\ pc = "setup"
    /\ cfg.gpu_ids # <<>> /\ cfg.probe = "unavailable"
    /\ trainer.use_gpu = FALSE

\* a trainer attribute, or None if the trainer has no such attribute
Attr(tr, k) == IF k \in DOMAIN tr THEN tr[k] ELSE None

RECURSIVE ChainedLr(_, _)
\* the lr after the callbacks cbs, each applied to what its predecessors
\* left: the last callback's override of lr wins, and "raise_lr" starts
\* from the lr it is handed
ChainedLr(cbs, lr0) ==
    IF cbs = <<>> THEN lr0
    ELSE LET before == ChainedLr(SubSeq(cbs, 1, Len(cbs) - 1), lr0)
             last == cbs[Len(cbs)]
         IN  CASE last = "set_lr" -> MaxLr
               [] last = "raise_lr" ->
                    IF before # None /\ before < MaxLr THEN before + 1 ELSE 0
               [] OTHER -> before

\* C7: after _at_epoch_begin or _at_epoch_end, every key returned by a
\* callback is an attribute of the trainer, the override of the callback
\* registered last is the one in the trainer, and each callback was handed
\* the trainer as its predecessors' overrides left it.
C7_CallbackChaining ==
    [][(pc \in {"epoch_begin", "epoch_end"} /\ pc' # "error") =>
        /\ \A i \in 1..Len(cfg.callbacks) :
              \A k \in DOMAIN CallbackReturn(cfg.callbacks[i], trainer) :
                  k \in DOMAIN trainer'
        /\ Attr(trainer', "lr") = ChainedLr(cfg.callbacks, Attr(trainer, "lr"))
        /\ (\E i \in 1..Len(cfg.callbacks) : cfg.callbacks[i] = "set_wd")
              => trainer'.wd = 1
        /\ \A k \in DOMAIN trainer \ {"lr", "wd"} :
              k \in DOMAIN trainer' /\ trainer'[k] = trainer[k]
      ]_vars

C7_Witness ==
    /\ pc = "train"
    /\ cfg.callbacks = <<"set_lr", "raise_lr">>
    /\ trainer.lr = 0

\* C8: at the end of training, a best checkpoint that exists in the save
\* location under an accepted extension is loaded and its module is
\* returned; without one the current module is returned.
C8_ReturnsBest ==
    (/\ pc = "done"
     /\ \A x \in DOMAIN files :
           IsBestCheckpoint(cfg.backend, x) => "model" \in DOMAIN files[x]) =>
        LET bests == {x \in DOMAIN files : IsBestCheckpoint(cfg.backend, x)}
        IN  /\ bests # {} => \E x \in bests : returned = files[x].model
            /\ returned = trainer.module.weights

\* C9: the start_epoch after the resume step of setup is an epoch number
\* not below the start_epoch the trainer was constructed with.
C9_EpochNeverDecreases ==
    (AfterSetup /\ resume.attempted) =>
        /\ trainer.start_epoch # None
        /\ trainer.start_epoch >= cfg.start_epoch

\* the accelerator device of an id
Accelerator(c, id) ==
    IF c.backend = "torch" THEN CudaTorch(id) ELSE GpuChainer(c.chainerx, id)

\* C10: with exactly one accelerator id and a probe that succeeds, setup
\* sets use_gpu, places the module on that accelerator and resolves the
\* input and the output device to it.
C10_SingleAccelerator ==
    (/\ pc # "uninitialized" /\ ~ResumeRaised
     /\ Len(cfg.gpu_ids) = 1 /\ cfg.probe = "available") =>
        /\ ~PlacementRaised
        /\ trainer.use_gpu = TRUE
        /\ trainer.input_device = Accelerator(cfg, cfg.gpu_ids[1])
        /\ trainer.output_device = Accelerator(cfg, cfg.gpu_ids[1])
        /\ trainer.module.device = Accelerator(cfg, cfg.gpu_ids[1])

\* the device the data-parallel module balances its outputs on: the second
\* id in torch, the first in chainer
BalancingId(c) == IF c.backend = "torch" THEN c.gpu_ids[2] ELSE c.gpu_ids[1]

\* the module is wrapped in the data-parallel construct over all of ids
WrappedOver(tr, ids) == tr.module.device_ids = ids

C12_PlacementNeverFatal ==
    (/\ pc # "uninitialized" /\ ~ResumeRaised
     /\ cfg.gpu_ids # <<>> /\ cfg.probe = "raises") =>
        /\ raised = ""
        /\ trainer.use_gpu = FALSE
        /\ IsCpu(trainer.input_device)
        /\ IsCpu(trainer.output_device)

\* C13: in the torch trainer, with both 'criterions' and 'losses' supplied
\* construction uses 'losses', warns and raises nothing; with 'criterions'
\* alone it uses 'criterions' with a deprecation warning; with 'losses'
\* alone it uses 'losses'.
C13_ConfigurationConflict ==
    (/\ AfterSetup /\ cfg.backend = "torch"
     /\ ~ResumeRaised /\ ~PlacementRaised) =>
        /\ (cfg.criterions # None /\ cfg.losses # None) =>
              /\ raised = ""
              /\ trainer.losses = cfg.losses
              /\ "RuntimeWarning: criterions and losses" \in log
        /\ (cfg.criterions # None /\ cfg.losses = None) =>
              /\ raised = ""
              /\ trainer.losses = cfg.criterions
              /\ "DeprecationWarning: criterions" \in log
        /\ (cfg.criterions = None /\ cfg.losses # None) =>
              /\ raised = ""
              /\ trainer.losses = cfg.losses

C13_Witness ==
    /\ pc = "setup" /\ cfg.backend = "torch"
    /\ cfg.criterions = 1 /\ cfg.losses = 2
    /\ trainer.losses = 2
    /\ "RuntimeWarning: criterions and losses" \in log

\* the file a file name stands for: itself if it ends in an accepted
\* extension, else the name with the canonical extension appended
Canonical(backend, p) ==
    IF \E e \in AcceptedExts(backend) : EndsWith(p, e) THEN p
    ELSE p \o CanonicalExt(backend)

\* C14: save_state(p) writes, and load_state(p) reads, the file p if p ends
\* in an accepted extension and the file p + canonical extension otherwise;
\* the name resolved is resolved to itself; load_state(p) after
\* save_state(p) returns what save_state(p) wrote.
C14_ExtensionCanonical ==
    [][/\ saves' # saves =>
            LET p == saves'[Len(saves')][1]
                t == Canonical(cfg.backend, p)
            IN  /\ DOMAIN files' = DOMAIN files \cup {t}
                /\ files'[t] = SavedBundle(trainer, saves'[Len(saves')][2])
                /\ \A f \in DOMAIN files \ {t} : files'[f] = files[f]
                /\ SaveFileName(cfg.backend, t) = t
                /\ LoadFileName(cfg.backend, p) = SaveFileName(cfg.backend, p)
                /\ LoadState(cfg.backend, files', p)
                      = [exc |-> "", bundle |-> files'[t]]
       /\ loaded' # loaded =>
            LET p == loaded'.arg
                t == Canonical(cfg.backend, p)
            IN  /\ loaded'.name = t
                /\ LoadFileName(cfg.backend, t) = t
                /\ (loaded'.exc = "") <=> (t \in DOMAIN files)
                /\ t \in DOMAIN files => loaded'.bundle = files[t]
      ]_vars

C14_Witness ==
    /\ cfg.backend = "torch" /\ Len(saves) = 2
    /\ saves[1][1] = <<"m">> /\ saves[2][1] = <<"m">> \o PTH
    /\ DOMAIN files = {<<"m">> \o PT, <<"m">> \o PTH}
    /\ loaded.arg = <<"m">> /\ loaded.name = <<"m">> \o PT
    /\ loaded.exc = ""

\* C15: on every path through device placement (no ids, probe unavailable,
\* one id, several ids, probe exception) setup reaches the binding of
\* _prepare_batch with use_gpu set and input_device and output_device each
\* assigned a device.
C15_DevicesResolved ==
    (pc # "uninitialized" /\ ~ResumeRaised) =>
        /\ ~PlacementRaised
        /\ {"use_gpu", "input_device", "output_device"} \subseteq DOMAIN trainer
        /\ trainer.use_gpu \in BOOLEAN
        /\ trainer.input_device.kind # "unplaced"
        /\ trainer.output_device.kind # "unplaced"

\* the names of the optimizers optim_fn built
BuiltOptimizerNames == {cfg.opt_names[i] : i \in 1..Len(cfg.opt_names)}

BestPatternFiles == {x \in DOMAIN files : StartsWith(x, BestStem)}

\* C17: in a save location that holds nothing but what this trainer's
\* setups, epochs and training ends wrote, at most one file matches the
\* best-checkpoint pattern.
C17_AtMostOneBest ==
    cfg.own => Cardinality(BestPatternFiles) <= 1

C17_Witness ==
    /\ cfg.own /\ ~cfg.fresh
    /\ pc = "done"
    /\ BestWrites >= 1
    /\ BestPatternFiles = {BestName(cfg.backend)}
    /\ files[BestName(cfg.backend)].model = trainer.module.weights

\* C18: when applying the resumed bundle raises the missing-key error,
\* the error is caught, a warning is logged, and the module's state, the
\* optimizers' states and start_epoch are those of an unresumed trainer.
C18_FailedResumeLeavesFresh ==
    (AfterSetup /\ resume.attempted /\ resume.exc = "KeyError") =>
        /\ raised # "KeyError"
        /\ Warned
        /\ trainer.module.weights = NewTrainer(cfg).module.weights
        /\ trainer.optimizers = NewTrainer(cfg).optimizers
        /\ trainer.start_epoch = NewTrainer(cfg).start_epoch

\* the secondary extension variant of the resume step: the primary
\* extension without its last character (.pt for .pth, .chai for .chain)
SecondaryExt(backend) == IF backend = "torch" THEN PT ELSE DropLast(CHAIN)

\* C19: when the checkpoint of the epoch the resume step selected exists
\* under the primary extension, load_state opens that file; when it exists
\* under the secondary extension variant only, load_state opens that one.
C19_ResumeFallback ==
    (AfterSetup /\ resume.attempted) =>
        LET prim == EpochStem(resume.latest_epoch) \o PrimaryExt(cfg.backend)
            sec == EpochStem(resume.latest_epoch) \o SecondaryExt(cfg.backend)
        IN  (prim \in DOMAIN files \/ sec \in DOMAIN files) =>
                /\ resume.exc # "FileNotFoundError"
                /\ resume.path = IF prim \in DOMAIN files THEN prim ELSE sec

\* a directory without the files whose name does not start with
\* checkpoint_epoch_
OnlyEpochFiles(dir) ==
    [x \in {y \in DOMAIN dir : StartsWith(y, CHECKPOINT \o US \o EPOCH \o US)}
        |-> dir[x]]

\* C20: the files whose name does not start with checkpoint_epoch_ have no
\* influence on the resume step: whether setup succeeds, whether a resume
\* is attempted and the epoch resumed are what they are without those
\* files.
C20_ScanFilter ==
    (AfterSetup /\ cfg.isdir) =>
        LET st == Setup(cfg, OnlyEpochFiles(files))
        IN  /\ raised = st.exc
            /\ resume.attempted = st.resume.attempted
            /\ resume.latest_epoch = st.resume.latest_epoch

\* a file the resume scan admits whose segment between the last "_" and
\* the extension is no integer
Malformed(backend, x) ==
    /\ StartsWith(x, CHECKPOINT)
    /\ ~IsBestFile(backend, x)
    /\ ~IsInt(EpochField(x))

\* C21: when the resume scan admits a file whose trailing segment before
\* the extension is no integer, the constructor raises ValueError: the file
\* is not skipped, the missing-key recovery does not handle it (no warning),
\* and no resume state is applied.
C21_MalformedNameFatal ==
    (/\ pc # "uninitialized" /\ cfg.isdir /\ saves = <<>>
     /\ \E x \in DOMAIN files : Malformed(cfg.backend, x)) =>
        /\ pc = "error"
        /\ raised = "ValueError"
        /\ ~Warned
        /\ ~resume.attempted
        /\ trainer.module.weights = NewTrainer(cfg).module.weights
        /\ trainer.optimizers = NewTrainer(cfg).optimizers
        /\ trainer.start_epoch = cfg.start_epoch

C21_Witness ==
    /\ pc = "error" /\ raised = "ValueError"
    /\ CHECKPOINT \o LOGEXT \in DOMAIN files
    /\ \E x \in DOMAIN files :
          /\ IsPeriodicFile(cfg.backend, x)
          /\ "model" \in DOMAIN files[x] /\ files[x].model # 0

\* the save_state calls so far that wrote the epoch-0 checkpoint file
InitialCheckpointWrites ==
    {i \in 1..Len(saves) :
        SaveFileName(cfg.backend, saves[i][1])
            = EpochStem(0) \o CanonicalExt(cfg.backend)}

\* C22: once training has begun, the epoch-0 checkpoint file has been
\* written exactly once, by the first save_state call of the trainer
\* (after the resume attempt, before the first epoch), under the name
\* checkpoint_epoch_0 with the canonical extension; no later step of the
\* trainer writes it again.
C22_InitialCheckpointOnce ==
    (pc \notin {"uninitialized", "setup"} /\ saves # <<>>) =>
        /\ InitialCheckpointWrites = {1}
        /\ EpochStem(0) \o CanonicalExt(cfg.backend) \in DOMAIN files

RECURSIVE ChainedModel(_, _)
\* the model state after the callbacks cbs, each applied to what its
\* predecessors left
ChainedModel(cbs, w) ==
    IF cbs = <<>> THEN w
    ELSE LET before == ChainedModel(SubSeq(cbs, 1, Len(cbs) - 1), w)
             last == cbs[Len(cbs)]
         IN  CASE last = "shift_model" -> before + ModelShift
               [] last = "scale_model" -> before * ModelScale
               [] OTHER -> before

\* C23: at an epoch end the overrides of all callbacks are merged, in
\* registration order, before the checkpoints are written: every
\* checkpoint written at this epoch end holds the model state the chain of
\* callbacks left; the writes are the periodic one (if due) followed by the
\* best one (if due).
C23_EpochEndOrdering ==
    [][(pc = "epoch_end" /\ pc' # "error") =>
        LET new == SubSeq(saves', Len(saves) + 1, Len(saves'))
            w == ChainedModel(cfg.callbacks, trainer.module.weights)
            periodic == <<PeriodicName(cfg.backend, epoch), epoch>>
            best == <<BestName(cfg.backend), epoch>>
        IN  /\ trainer'.module.weights = w
            /\ \A i \in 1..Len(new) :
                  /\ SaveFileName(cfg.backend, new[i][1]) \in DOMAIN files'
                  /\ files'[SaveFileName(cfg.backend, new[i][1])].model = w
            /\ new = (IF epoch % cfg.save_freq = 0 THEN <<periodic>> ELSE <<>>)
                      \o (IF is_best THEN <<best>> ELSE <<>>)
      ]_vars

C23_Witness ==
    /\ cfg.callbacks = <<"shift_model", "scale_model">>
    /\ pc = "training_end" /\ cfg.num_epochs = 1 /\ cfg.save_freq = 1
    /\ Len(saves) = 3
    /\ saves[2][1] = PeriodicName(cfg.backend, 1)
    /\ saves[3][1] = BestName(cfg.backend)
    /\ trainer.module.weights = ((0 + ModelShift) * ModelScale + 1 + ModelShift) * ModelScale
    /\ files[BestName(cfg.backend)].model = trainer.module.weights

\* C24: a load_state call leaves the trainer (module, optimizers,
\* start_epoch, devices and every other attribute), the directory and the
\* lifecycle as they were, and returns the bundle of the file it resolved;
\* the trainer changes only in a step that is not a load_state call.
C24_LoadStateNoEffect ==
    [][loaded' # loaded =>
        /\ trainer' = trainer
        /\ files' = files
        /\ pc' = pc /\ raised' = raised
        /\ (loaded'.exc = "") <=> (loaded'.name \in DOMAIN files)
        /\ loaded'.exc = "" => loaded'.bundle = files[loaded'.name]
      ]_vars

C24_Witness ==
    /\ pc = "setup"
    /\ loaded.exc = "" /\ loaded.arg = <<"m">>
    /\ "model" \in DOMAIN loaded.bundle
    /\ loaded.bundle.model # trainer.module.weights
    /\ loaded.bundle.optimizer # trainer.optimizers
    /\ trainer.module.weights = 0
    /\ trainer.use_gpu

\* what the claim says of a trainer tr2 that a bundle b was applied to, tr
\* being the trainer before
BundleApplied(tr, tr2, b) ==
    LET rest == DOMAIN b \ {"model", "optimizer", "epoch"}
    IN  /\ "model" \in DOMAIN b => tr2.module.weights = b.model
        /\ "optimizer" \in DOMAIN b =>
                \A k \in DOMAIN b.optimizer \cap DOMAIN tr.optimizers :
                    tr2.optimizers[k] = b.optimizer[k]
        /\ "epoch" \in DOMAIN b => tr2.start_epoch = b.epoch
        /\ DOMAIN tr2 = DOMAIN tr \cup rest
        /\ \A k \in rest : tr2[k] = b[k]

\* C25: an update_state call that returns has loaded the bundle's model,
\* each of its optimizer entries and its epoch into the trainer, and has
\* merged as attributes only the bundle's keys other than model, optimizer
\* and epoch, for every bundle, one with an empty optimizer mapping included.
C25_BundleApplied ==
    [][(pc = "setup" /\ pc' = "setup" /\ loaded' = loaded) =>
        \E f \in ApiNames :
            LET ld == LoadState(cfg.backend, files, f)
            IN  ld.exc = "" /\ BundleApplied(trainer, trainer', ld.bundle)
      ]_vars

\* C26: when apex is not importable, the constructor of the torch trainer
\* does not fail with an import error, every optimizer is wrapped by the
\* default wrapper under its original name, and the warning is in the log
\* exactly when mixed precision was requested.
C26_ApexMissing ==
    (pc # "uninitialized" /\ cfg.backend = "torch" /\ ~cfg.apex) =>
        /\ raised \notin {"ImportError", "ModuleNotFoundError"}
        /\ ("warning: Apex was not found" \in log) <=> cfg.mixed_precision
        /\ DOMAIN trainer.optim_wrappers = BuiltOptimizerNames
        /\ DOMAIN trainer.optimizers = BuiltOptimizerNames
        /\ \A k \in BuiltOptimizerNames :
                trainer.optim_wrappers[k] = "DefaultOptimWrapperTorch"

C26_Witness ==
    /\ pc = "setup" /\ cfg.backend = "torch" /\ ~cfg.apex
    /\ cfg.mixed_precision
    /\ "warning: Apex was not found" \in log
    /\ Cardinality(DOMAIN trainer.optim_wrappers) = 2

\* C27: with the chainer trainer, every training pass runs with the global
\* train flag true and every predict_data_mgr pass (the validation pass of
\* an epoch or a call of the script) runs with it false, in any
\* interleaving and whatever the flag was when the script started.
C27_ModeAlternation ==
    cfg.backend = "chainer" =>
        /\ running.pass = "train" => running.train
        /\ running.pass = "predict" => ~running.train
        /\ running.pass # "none" => global_config.train = running.train

\* a training epoch that followed a validation pass
C27_Witness ==
    /\ cfg.backend = "chainer"
    /\ running.pass = "train" /\ running.train
    /\ seen # {}
    /\ ~cfg.global_train

\* C28: for every non-empty loss mapping, every closure invocation returns
\* loss values under exactly the mapping's keys, has accumulated one
\* gradient per loss and has applied one update to the 'default' optimizer,
\* so that after k invocations the optimizer's step counter is k.
C28_OneStepPerBatch ==
    (cfg.jax_losses # <<>> /\ jax_run.calls > 0) =>
        /\ jax_run.exc = ""
        /\ jax_run.loss_vals =
              {cfg.jax_losses[i] : i \in 1..Len(cfg.jax_losses)}
        /\ jax_run.grads = Len(cfg.jax_losses)
        /\ ~jax_run.opt.is_none
        /\ jax_run.opt.curr_step = jax_run.calls

\* the names a module exposes, in a process that imported it
ExposedBy(m) == {e[2] : e \in {x \in pkg.exposed : x[1] = m}}

Attempted(m) == m \in pkg.imported \/ \E e \in pkg.failed : e[1] = m

\* C29: on a host with any set of native packages, importing delira.training
\* and importing delira.models.gan never fails; delira.training exposes
\* exactly the trainers of the backends that are available; and
\* delira.models.gan without torch is imported with an empty __all__.
C29_ImportNeverFails ==
    /\ \A e \in pkg.failed : e[1] \notin {TRAINING, GAN}
    /\ TRAINING \in pkg.imported =>
          ExposedBy(TRAINING) \cap {"PyTorchNetworkTrainer", "TfNetworkTrainer"}
            = {n \in {"PyTorchNetworkTrainer", "TfNetworkTrainer"} :
                  \/ n = "PyTorchNetworkTrainer" /\ "torch" \in cfg.installed
                  \/ n = "TfNetworkTrainer"
                        /\ "tensorflow" \in cfg.installed}
    /\ (Attempted(GAN) /\ "torch" \notin cfg.installed) =>
          GAN \in pkg.imported /\ ExposedBy(GAN) = {}

\* C30: at the end of a setup that resumed from a checkpoint, on no, one or
\* several device ids, each optimizer of the trainer carries the state the
\* checkpoint's bundle holds for it.
C30_ResumedOptimizersSurvive ==
    (/\ pc = "setup"
     /\ resume.attempted /\ resume.exc = ""
     /\ "optimizer" \in DOMAIN resume.bundle
     /\ BuiltOptimizerNames \subseteq DOMAIN resume.bundle.optimizer) =>
        \A k \in BuiltOptimizerNames :
            trainer.optimizers[k] = resume.bundle.optimizer[k]

\* C31: the step from the end of the epoch loop to the end of train(), which
\* loads the best checkpoint if there is one, changes nothing of the
\* trainer but the states of its module and of its optimizers: start_epoch
\* and every other attribute are what they were.
C31_TrainingEndKeepsStartEpoch ==
    [][(pc = "training_end" /\ pc' = "done") =>
        /\ DOMAIN trainer' = DOMAIN trainer
        /\ trainer'.start_epoch = trainer.start_epoch
        /\ \A k \in DOMAIN trainer \ {"module", "optimizers"} :
                trainer'[k] = trainer[k]
        /\ trainer'.module.device = trainer.module.device
        /\ trainer'.module.device_ids = trainer.module.device_ids
      ]_vars

\* C32: the constructor of the torch trainer has issued the warning that
\* both 'criterions' and 'losses' have been specified if and only if both
\* were supplied; with neither supplied there is no such warning.
C32_BothWarningIffBoth ==
    (pc # "uninitialized" /\ cfg.backend = "torch") =>
        ("RuntimeWarning: criterions and losses" \in log)
            <=> (cfg.criterions # None /\ cfg.losses # None)

\* what opt_init(model.parameters) returns, and what the update function
\* returns for a step and a state: a state other than the one it was given
OptInitState == 0
OptUpdateResult(step, state) == state + 1

\* C33: the optimizer from_model hands back is an Optimizer holding
\* opt_init(model.parameters) with step counter 0, and every apply_update
\* call that returns has added one to the step counter and has replaced
\* the state held by what the update function returned.
C33_OptimizerSteps ==
    /\ cfg.jax_optimizer = "from_model" =>
            jax_run.opt = [is_none |-> FALSE, curr_step |-> 0,
                           state |-> OptInitState]
    /\ [](cfg.jax_optimizer = "from_model" => ~jax_run.opt.is_none)
    /\ [][(jax_run'.exc = "" /\ jax_run'.opt # jax_run.opt) =>
            /\ jax_run'.opt.curr_step = jax_run.opt.curr_step + 1
            /\ jax_run'.opt.state =
                  OptUpdateResult(jax_run.opt.curr_step, jax_run.opt.state)
         ]_vars

=============================================================================
